---- MODULE Spec2Model ----
\* A model of src/main.py: the FastAPI gateway in front of the HeyGen video
\* provider, its in-memory registry video_requests_db and its six routes.
\*
\* Every route is an `async def` that calls the blocking `requests` library
\* directly and never awaits, and the process runs one uvicorn event loop
\* (main.py:400-402).  A handler therefore runs to completion before the loop
\* takes the next inbound call; the only point where the model splits a
\* handler is the outbound provider call, during which the loop stays
\* occupied by the handler (variable `running`).
EXTENDS Integers, Sequences, FiniteSets, TLC

VARIABLES
    HEYGEN_API_KEY,     \* main.py:74, read once from the environment
    heygen_service,     \* main.py:198, TRUE once the HeyGenService object exists
    video_requests_db,  \* main.py:20, the dict, as the sequence of its items in insertion order
    now,                \* the wall clock datetime.now() reads
    running,            \* <<>> when the event loop is idle, else <<frame>> of the handler blocked in requests.post/get
    resp                \* what the call that completed last answered, and how it got there (NoResponse while a handler is in its provider call)

vars == <<HEYGEN_API_KEY, heygen_service, video_requests_db, now, running, resp>>

-----------------------------------------------------------------------------
\* Bounds of the model.

\* How many records the registry may hold before POST /generate calls that reach the provider are no longer explored.
MaxRequests == 1
\* The largest clock reading.
MaxClock == 1

-----------------------------------------------------------------------------
\* Values.

\* Python None, JSON null, an omitted optional field.
NONE == "None"
\* A key that a JSON body does not have.
ABSENT == "<absent>"
\* A JSON value that is no string and that no pydantic version coerces to one (an object, a list).
NonString == "<non-string>"

\* Python truthiness of an Optional[str].
Truthy(v) == v # NONE /\ v # ""

\* Field(..., min_length=1, max_length=5000)
MinScriptLen == 1
MaxScriptLen == 5000

TEMPLATE_ID == "52df47c0bd8e435c9729121e036d2e7f"
DefaultAvatarId == "283a8bced1f841c7a9292a9212019165"
DefaultVoiceId == "fc3a1b6d218246d39ff5199ab147d6ee"
DefaultTitle == "Render_API_Video"

\* The ids uuid.uuid4() hands out, in the order it hands them out.
Uuids == <<"r1", "r2", "r3", "r4", "r5", "r6">>

\* str(uuid.uuid4()): an id no registry record carries yet.
uuid4(db) == Uuids[Len(db) + 1]

\* The ids the provider assigns to videos.
VideoIds == {"v1", "v2"}
\* The statuses the provider reports.
Statuses == {"processing", "completed", "failed"}

-----------------------------------------------------------------------------
\* Inbound request bodies.  script_text is represented by its length, the
\* only thing about it the program looks at.

GenerationRequest(len, template) ==
    [script_text |-> len, template_id |-> template, use_captions |-> FALSE,
     avatar_id |-> DefaultAvatarId, voice_id |-> DefaultVoiceId, title |-> DefaultTitle]

\* The generation bodies explored: the lengths on both sides of both limits,
\* with and without a template of the caller's.
VideoGenerationRequest ==
    {GenerationRequest(0, NONE),
     GenerationRequest(MinScriptLen, NONE),
     GenerationRequest(MaxScriptLen, "t1"),
     GenerationRequest(MaxScriptLen + 1, "t1")}

VideoRetrievalRequest ==
    [request_id : {NONE, "", "rX"} \cup {Uuids[i] : i \in 1..MaxRequests},
     video_id : {NONE, ""} \cup VideoIds]

\* The request of a route that takes no body.
NoRequest == [path |-> NONE]

\* pydantic's check of the generation body, done by FastAPI before the route function runs.
ScriptValid_off_by_one(n) == n >= MinScriptLen /\ n < MaxScriptLen
ScriptValid(n) == n >= MinScriptLen /\ n <= MaxScriptLen

-----------------------------------------------------------------------------
\* What the provider may do with one outbound call.
\*   kind "timeout" / "connection" / "request_error": requests raised
\*   kind "response": an HTTP response with a status code and a JSON body;
\*     video_id is data.video_id (ABSENT when the body lacks it),
\*     status is data.status (ABSENT when the body lacks it),
\*     typed says whether video_url, caption_url, thumbnail_url, duration and
\*     created_at of the body have the types VideoRetrievalResponse declares.

NoReply == [kind |-> "none", code |-> 0, video_id |-> ABSENT, status |-> ABSENT, typed |-> TRUE]

Raised(k) == [kind |-> k, code |-> 0, video_id |-> ABSENT, status |-> ABSENT, typed |-> TRUE]

Failures == {Raised("timeout"), Raised("connection"), Raised("request_error"),
             [kind |-> "response", code |-> 401, video_id |-> ABSENT, status |-> ABSENT, typed |-> TRUE]}

GenerateReplies ==
    Failures \cup
    {[kind |-> "response", code |-> 200, video_id |-> v, status |-> ABSENT, typed |-> TRUE] :
        v \in VideoIds \cup {ABSENT, NonString}}

StatusReplies ==
    Failures \cup
    {[kind |-> "response", code |-> 200, video_id |-> ABSENT, status |-> s, typed |-> TRUE] :
        s \in Statuses \cup {ABSENT}} \cup
    {[kind |-> "response", code |-> 200, video_id |-> ABSENT, status |-> "completed", typed |-> FALSE]}

-----------------------------------------------------------------------------
\* The registry, a Python dict: a sequence of items, each carrying its key.

Keys(db) == {db[i].request_id : i \in 1..Len(db)}

IndexOf(db, rid) == CHOOSE i \in 1..Len(db) : db[i].request_id = rid

Get(db, rid) == db[IndexOf(db, rid)]

\* db[rid] = item: replaces the item of an existing key in place, else appends.
DictSet(db, rid, item) ==
    IF rid \in Keys(db)
    THEN [db EXCEPT ![IndexOf(db, rid)] = item]
    ELSE Append(db, item)

\* The record generate_video stores (main.py:253-264).  It has no
\* last_checked key yet: last_checked is <<>> until retrieve_video writes <<t>>.
NewRecord(rid, req, vid, t) ==
    [request_id |-> rid,
     video_id |-> vid,
     script_text |-> req.script_text,
     template_id |-> IF Truthy(req.template_id) THEN req.template_id ELSE TEMPLATE_ID,
     use_captions |-> req.use_captions,
     avatar_id |-> req.avatar_id,
     voice_id |-> req.voice_id,
     title |-> req.title,
     created_at |-> t,
     status |-> "processing",
     last_checked |-> <<>>,
     platform |-> "render"]

\* The update retrieve_video makes (main.py:327-329).
UpdateStatus_drops_fields(db, rid, status, t) ==
    IF Truthy(rid) /\ rid \in Keys(db)
    THEN [db EXCEPT ![IndexOf(db, rid)] =
            [@ EXCEPT !.status = status, !.last_checked = <<t>>, !.video_id = NONE]]
    ELSE db
UpdateStatus_keeps_status(db, rid, status, t) ==
    IF Truthy(rid) /\ rid \in Keys(db)
    THEN [db EXCEPT ![IndexOf(db, rid)] = [@ EXCEPT !.last_checked = <<t>>]]
    ELSE db
UpdateStatus(db, rid, status, t) ==
    IF Truthy(rid) /\ rid \in Keys(db)
    THEN [db EXCEPT ![IndexOf(db, rid)] = [@ EXCEPT !.status = status, !.last_checked = <<t>>]]
    ELSE db

\* The loop of main.py:311-314: the key of the first item with this video_id, else the given default.
FindByVideoId(db, vid, default) ==
    LET hits == {i \in 1..Len(db) : db[i].video_id = vid}
    IN  IF hits = {} THEN default
        ELSE db[CHOOSE i \in hits : \A j \in hits : i <= j].request_id

-----------------------------------------------------------------------------
\* Responses.  One record shape for every route:
\*   op, request      the route and the body it was called with
\*   status_code      the HTTP status answered
\*   success          the body's success flag (TRUE for the 200 bodies that carry none)
\*   detail           which message the body carries
\*   request_id, video_id, status   the fields of the generation / retrieval response
\*   reply            what the provider did in this call (NoReply when it was not called)
\*   calls            how many outbound provider calls this call made
\*   lookup           the video_id handed to the status endpoint (ABSENT when not called)
\*   body             further fields: health flags, total_requests, a record's last_checked

Response(op, request, code, success, detail, rid, vid, status, reply, calls, lookup, body) ==
    [op |-> op, request |-> request, status_code |-> code, success |-> success,
     detail |-> detail, request_id |-> rid, video_id |-> vid, status |-> status,
     reply |-> reply, calls |-> calls, lookup |-> lookup, body |-> body]

NoResponse ==
    Response("none", NoRequest, 0, FALSE, NONE, NONE, NONE, NONE, NoReply, 0, ABSENT, <<>>)

\* http_exception_handler (main.py:385-390) on an HTTPException raised before the provider was called.
Rejected(op, request, code, detail) ==
    Response(op, request, code, FALSE, detail, NONE, NONE, NONE, NoReply, 0, ABSENT, <<>>)

\* http_exception_handler on an HTTPException raised after the provider call.
\* The request of such a call is the one in the handler's frame.
Failed(frame, reply, code, detail) ==
    Response(frame.op, NoRequest, code, FALSE, detail, NONE, NONE, NONE, reply, 1,
             frame.lookup, <<>>)

\* FastAPI's answer to a body that fails the request model: 422, before the route function runs.
ValidationRejected(op, request) ==
    Rejected(op, request, 422, "validation_error")

\* The `if not service` branch of both POST routes (main.py:236-240, 293-297).
NotConfigured(op, request) ==
    Rejected(op, request, 500, "not_configured")

-----------------------------------------------------------------------------
\* get_heygen_service (main.py:200-204): the value of heygen_service after the call.
get_heygen_service_always(svc, key) == TRUE
get_heygen_service(svc, key) ==
    IF ~svc /\ Truthy(key) THEN TRUE ELSE svc

\* The try/except of HeyGenService.generate_video and get_video_status
\* (main.py:146-164, 177-195): one requests call, no loop around it.
\* ok = the method returned response.json(); otherwise the HTTPException it raised.
TranslateReply(reply) ==
    CASE reply.kind = "timeout" -> [ok |-> FALSE, code |-> 408, detail |-> "timeout"]
      [] reply.kind = "connection" -> [ok |-> FALSE, code |-> 503, detail |-> "unavailable"]
      [] reply.kind = "request_error" -> [ok |-> FALSE, code |-> 500, detail |-> "request_failed"]
      [] reply.kind = "response" /\ reply.code # 200 ->
            [ok |-> FALSE, code |-> reply.code, detail |-> "provider_error"]
      [] OTHER -> [ok |-> TRUE, code |-> 200, detail |-> NONE]

HeyGenService_generate_video(reply) == TranslateReply(reply)

HeyGenService_get_video_status(reply) == TranslateReply(reply)

\* Whether VideoGenerationResponse(...) accepts video_id: Optional[str].
GenerationResponseValid(vid) == vid # NonString

\* Whether VideoRetrievalResponse(**response_data) accepts the data: the
\* provider's optional fields are copied in only for status "completed".
RetrievalResponseValid(reply) == reply.status = "completed" => reply.typed

-----------------------------------------------------------------------------
\* POST /generate after the provider answered (main.py:247-286):
\* the registry and the response the call ends with.
generate_video_finish(db, frame, reply, t) ==
    LET result == HeyGenService_generate_video(reply)
        stored == DictSet(db, frame.request_id,
                          NewRecord(frame.request_id, frame.request, reply.video_id, t))
    IN  IF ~result.ok
        THEN [db |-> db, resp |-> Failed(frame, reply, result.code, result.detail)]
        ELSE IF reply.video_id = ABSENT
        THEN [db |-> db, resp |-> Failed(frame, reply, 500, "unexpected_response")]
        ELSE IF ~GenerationResponseValid(reply.video_id)
        THEN [db |-> stored, resp |-> Failed(frame, reply, 500, "generation_failed")]
        ELSE [db |-> stored,
              resp |-> Response("generate", NoRequest, 200, TRUE, "initiated",
                                frame.request_id, reply.video_id, NONE, reply, 1,
                                ABSENT, <<>>)]

\* The resolution of POST /retrieve (main.py:299-316): the HTTPException it
\* raises, or the video_id to look up and the request_id to update and echo.
ResolveTarget_prefers_video_id(db, req) ==
    IF Truthy(req.video_id)
    THEN [ok |-> TRUE, code |-> 200, detail |-> NONE, video_id |-> req.video_id,
          request_id |-> FindByVideoId(db, req.video_id, req.request_id)]
    ELSE IF Truthy(req.request_id) /\ req.request_id \in Keys(db)
    THEN [ok |-> TRUE, code |-> 200, detail |-> NONE,
          video_id |-> Get(db, req.request_id).video_id, request_id |-> req.request_id]
    ELSE IF Truthy(req.request_id)
    THEN [ok |-> FALSE, code |-> 404, detail |-> "request_id_not_found",
          video_id |-> NONE, request_id |-> req.request_id]
    ELSE [ok |-> FALSE, code |-> 400, detail |-> "id_required",
          video_id |-> NONE, request_id |-> req.request_id]
ResolveTarget_skips_lookup(db, req) ==
    IF Truthy(req.request_id)
    THEN [ok |-> TRUE, code |-> 200, detail |-> NONE,
          video_id |-> IF req.request_id \in Keys(db)
                       THEN Get(db, req.request_id).video_id ELSE req.video_id,
          request_id |-> req.request_id]
    ELSE IF Truthy(req.video_id)
    THEN [ok |-> TRUE, code |-> 200, detail |-> NONE, video_id |-> req.video_id,
          request_id |-> FindByVideoId(db, req.video_id, req.request_id)]
    ELSE [ok |-> FALSE, code |-> 400, detail |-> "id_required",
          video_id |-> NONE, request_id |-> req.request_id]
ResolveTarget(db, req) ==
    IF Truthy(req.request_id)
    THEN IF req.request_id \in Keys(db)
         THEN [ok |-> TRUE, code |-> 200, detail |-> NONE,
               video_id |-> Get(db, req.request_id).video_id,
               request_id |-> req.request_id]
         ELSE [ok |-> FALSE, code |-> 404, detail |-> "request_id_not_found",
               video_id |-> NONE, request_id |-> req.request_id]
    ELSE IF Truthy(req.video_id)
    THEN [ok |-> TRUE, code |-> 200, detail |-> NONE, video_id |-> req.video_id,
          request_id |-> FindByVideoId(db, req.video_id, req.request_id)]
    ELSE [ok |-> FALSE, code |-> 400, detail |-> "id_required",
          video_id |-> NONE, request_id |-> req.request_id]

\* POST /retrieve after the provider answered (main.py:320-365).
retrieve_video_finish(db, frame, reply, t) ==
    LET result == HeyGenService_get_video_status(reply)
        updated == UpdateStatus(db, frame.request_id, reply.status, t)
    IN  IF ~result.ok
        THEN [db |-> db, resp |-> Failed(frame, reply, result.code, result.detail)]
        ELSE IF reply.status = ABSENT
        THEN [db |-> db, resp |-> Failed(frame, reply, 500, "unexpected_response")]
        ELSE IF ~RetrievalResponseValid(reply)
        THEN [db |-> updated, resp |-> Failed(frame, reply, 500, "retrieval_failed")]
        ELSE [db |-> updated,
              resp |-> Response("retrieve", NoRequest, 200, TRUE,
                                IF reply.status = "failed" THEN "video_failed" ELSE "video_status",
                                frame.request_id, frame.lookup, reply.status, reply, 1,
                                frame.lookup, <<>>)]

-----------------------------------------------------------------------------
\* The state after the module is imported.
Init ==
    /\ HEYGEN_API_KEY \in {NONE, "key"}
    /\ heygen_service = FALSE
    /\ video_requests_db = <<>>
    /\ now = 0
    /\ running = <<>>
    /\ resp = NoResponse

\* The event loop takes an inbound call only when no handler occupies it.
LoopIdle == running = <<>>

\* GET /
root ==
    /\ LoopIdle
    /\ resp' = Response("root", NoRequest, 200, TRUE, "running", NONE, NONE, "healthy",
                        NoReply, 0, ABSENT, <<>>)
    /\ UNCHANGED <<HEYGEN_API_KEY, heygen_service, video_requests_db, now, running>>

\* GET /health
health_check ==
    /\ LoopIdle
    /\ heygen_service' = get_heygen_service(heygen_service, HEYGEN_API_KEY)
    /\ resp' = Response("health", NoRequest, 200, TRUE, NONE, NONE, NONE, "healthy",
                        NoReply, 0, ABSENT, <<Truthy(HEYGEN_API_KEY), heygen_service'>>)
    /\ UNCHANGED <<HEYGEN_API_KEY, video_requests_db, now, running>>

\* POST /generate up to the outbound call (main.py:231-247).  Calls that
\* reach the provider are explored while the registry is below MaxRequests.
generate_video ==
    /\ LoopIdle
    /\ \E request \in VideoGenerationRequest :
        IF ~ScriptValid(request.script_text)
        THEN /\ resp' = ValidationRejected("generate", request)
             /\ UNCHANGED <<HEYGEN_API_KEY, heygen_service, video_requests_db, now, running>>
        ELSE /\ heygen_service' = get_heygen_service(heygen_service, HEYGEN_API_KEY)
             /\ IF ~heygen_service'
                THEN /\ resp' = NotConfigured("generate", request)
                     /\ UNCHANGED running
                ELSE /\ Len(video_requests_db) < MaxRequests
                     /\ running' = <<[op |-> "generate", request |-> request,
                                      request_id |-> uuid4(video_requests_db),
                                      lookup |-> ABSENT]>>
                     /\ resp' = NoResponse
             /\ UNCHANGED <<HEYGEN_API_KEY, video_requests_db, now>>

\* POST /retrieve up to the outbound call (main.py:288-320).
retrieve_video ==
    /\ LoopIdle
    /\ \E request \in VideoRetrievalRequest :
        /\ heygen_service' = get_heygen_service(heygen_service, HEYGEN_API_KEY)
        /\ LET target == ResolveTarget(video_requests_db, request)
           IN  IF ~heygen_service'
               THEN /\ resp' = NotConfigured("retrieve", request)
                    /\ UNCHANGED running
               ELSE IF ~target.ok
               THEN /\ resp' = Rejected("retrieve", request, target.code, target.detail)
                    /\ UNCHANGED running
               ELSE /\ running' = <<[op |-> "retrieve", request |-> request,
                                     request_id |-> target.request_id,
                                     lookup |-> target.video_id]>>
                    /\ resp' = NoResponse
        /\ UNCHANGED <<HEYGEN_API_KEY, video_requests_db, now>>

\* The provider call of the running handler returns or raises, some time
\* passes meanwhile, and the handler runs to its end.
provider_returns ==
    /\ ~LoopIdle
    /\ \E t \in {now, now + 1} :
        /\ t <= MaxClock
        /\ now' = t
        /\ LET frame == running[1]
           IN  \E reply \in (IF frame.op = "generate" THEN GenerateReplies ELSE StatusReplies) :
                LET out == IF frame.op = "generate"
                           THEN generate_video_finish(video_requests_db, frame, reply, t)
                           ELSE retrieve_video_finish(video_requests_db, frame, reply, t)
                IN  /\ video_requests_db' = out.db
                    /\ resp' = out.resp
    /\ running' = <<>>
    /\ UNCHANGED <<HEYGEN_API_KEY, heygen_service>>

\* GET /requests
list_requests ==
    /\ LoopIdle
    /\ resp' = Response("list", NoRequest, 200, TRUE, NONE, NONE, NONE, NONE, NoReply, 0,
                        ABSENT, <<Len(video_requests_db)>>)
    /\ UNCHANGED <<HEYGEN_API_KEY, heygen_service, video_requests_db, now, running>>

\* GET /requests/{request_id}
get_request_details ==
    /\ LoopIdle
    /\ \E request_id \in {"rX"} \cup {Uuids[i] : i \in 1..MaxRequests} :
        resp' = IF request_id \notin Keys(video_requests_db)
                THEN Rejected("get", [request_id |-> request_id, video_id |-> NONE],
                              404, "request_not_found")
                ELSE Response("get", [request_id |-> request_id, video_id |-> NONE], 200,
                              TRUE, NONE, request_id,
                              Get(video_requests_db, request_id).video_id,
                              Get(video_requests_db, request_id).status,
                              NoReply, 0, ABSENT,
                              <<Get(video_requests_db, request_id).last_checked>>)
    /\ UNCHANGED <<HEYGEN_API_KEY, heygen_service, video_requests_db, now, running>>

Next ==
    \/ root
    \/ health_check
    \/ generate_video
    \/ retrieve_video
    \/ provider_returns
    \/ list_requests
    \/ get_request_details

Spec == Init /\ [][Next]_vars

-----------------------------------------------------------------------------
\* Steps, as the properties below speak of them.

\* The step takes an inbound call to route op: it either answers it at once
\* or leaves its handler waiting in the provider call.
Called(op) ==
    /\ running = <<>>
    /\ IF running' # <<>> THEN running'[1].op = op ELSE resp'.op = op

\* The body the call taken in this step came with.
CalledWith == IF running' # <<>> THEN running'[1].request ELSE resp'.request

\* The step answers a call to route op without having called the provider.
AnsweredAtOnce(op) == running = <<>> /\ running' = <<>> /\ resp'.op = op

\* The step is the end of a call to route op that called the provider.
Returned(op) == running # <<>> /\ running' = <<>> /\ running[1].op = op

\* The step ends a call to route op, whichever way.
Completed(op) == running' = <<>> /\ resp'.op = op

\* The provider answered 200 with a body.
Replied200(reply) == reply.kind = "response" /\ reply.code = 200

\* What a successful generation call must have done to the registry and answered.
InsertedAndAnswered ==
    LET db == video_requests_db
        new == video_requests_db'[Len(video_requests_db')]
    IN  /\ Len(video_requests_db') = Len(db) + 1
        /\ SubSeq(video_requests_db', 1, Len(db)) = db
        /\ new.request_id \notin Keys(db)
        /\ new.video_id = resp'.reply.video_id
        /\ new.status = "processing"
        /\ resp'.success
        /\ resp'.status_code = 200
        /\ resp'.request_id = new.request_id
        /\ resp'.video_id = new.video_id

\* C1 as stated: whenever the provider answers a generation call of a valid
\* body with 200 and a body that contains data.video_id, the registry grows
\* by exactly one record under a new request_id, with the provider's video_id
\* and status "processing", the earlier records are untouched, and the caller
\* gets success with that request_id and video_id.
C1_AnyVideoId ==
    [][(/\ Returned("generate")
        /\ Replied200(resp'.reply)
        /\ resp'.reply.video_id # ABSENT) => InsertedAndAnswered]_vars

\* C1 amended: the same, when data.video_id is a string.
C1_StringVideoId ==
    [][(/\ Returned("generate")
        /\ Replied200(resp'.reply)
        /\ resp'.reply.video_id \in VideoIds) => InsertedAndAnswered]_vars

\* C2: a generation call that ends in failure leaves the registry as it was,
\* answers an error, and called the provider at most once.
C2_FailureLeavesRegistry ==
    [][(Completed("generate") /\ ~resp'.success) =>
        /\ video_requests_db' = video_requests_db
        /\ resp'.status_code >= 400
        /\ resp'.calls <= 1]_vars

\* The script lengths the request model admits, written out.
InRange(n) == n >= 1 /\ n <= 5000

\* What C3 says of a generation call, but for the status it names.
RejectedBeforeProvider(code) ==
    /\ (AnsweredAtOnce("generate") /\ ~InRange(resp'.request.script_text)) =>
            /\ resp'.status_code = code
            /\ resp'.calls = 0
            /\ resp'.reply = NoReply
            /\ video_requests_db' = video_requests_db
    /\ (Called("generate") /\ ~InRange(CalledWith.script_text)) => running' = <<>>
    /\ (AnsweredAtOnce("generate") /\ InRange(resp'.request.script_text)) =>
            resp'.detail # "validation_error"
    /\ Returned("generate") =>
            /\ InRange(running[1].request.script_text)
            /\ resp'.detail # "validation_error"

\* C3 as stated: a script_text of length 0 or above 5000 is rejected with
\* status 400 before any provider call, the registry unchanged, and a length
\* of 1..5000 is never rejected by this validation.
C3_Rejected400 == [][RejectedBeforeProvider(400)]_vars

\* C3 amended: the same, with status 422.
C3_Rejected422 == [][RejectedBeforeProvider(422)]_vars

\* A script one character too long was rejected.
C3_Witness ==
    /\ resp.op = "generate"
    /\ resp.detail = "validation_error"
    /\ resp.request.script_text = MaxScriptLen + 1
    /\ Len(video_requests_db) = 1

\* An inbound retrieval that is answered NotFound before any provider call.
NotFoundBeforeProvider ==
    /\ running' = <<>>
    /\ resp'.status_code = 404
    /\ ~resp'.success
    /\ resp'.calls = 0
    /\ resp'.reply = NoReply
    /\ video_requests_db' = video_requests_db

\* C4 as stated: in every registry state a retrieval that supplies a
\* request_id the registry does not hold, with or without a video_id, is
\* answered 404, calls the provider not at all and leaves the registry alone.
C4_UnknownIdNotFound ==
    [][(/\ Called("retrieve")
        /\ CalledWith.request_id # NONE
        /\ CalledWith.request_id \notin Keys(video_requests_db)) => NotFoundBeforeProvider]_vars

\* C4 amended: the same for a non-empty request_id, when the provider key is configured.
C4_UnknownNonEmptyIdNotFound ==
    [][(/\ Called("retrieve")
        /\ HEYGEN_API_KEY # NONE /\ HEYGEN_API_KEY # ""
        /\ CalledWith.request_id # NONE /\ CalledWith.request_id # ""
        /\ CalledWith.request_id \notin Keys(video_requests_db)) => NotFoundBeforeProvider]_vars

\* A retrieval by an unknown request_id together with the video_id of a
\* record was answered 404.
C4_Witness ==
    /\ resp.op = "retrieve"
    /\ resp.status_code = 404
    /\ resp.request.request_id = "rX"
    /\ \E i \in 1..Len(video_requests_db) :
            video_requests_db[i].video_id = resp.request.video_id

\* C5: a retrieval that answers an error leaves the registry as it was, and
\* a record's status and last_checked change only in a retrieval that
\* answers success.
C5_ErrorLeavesRegistry ==
    [][/\ (Completed("retrieve") /\ ~resp'.success) =>
                video_requests_db' = video_requests_db
       /\ \A i \in 1..Len(video_requests_db) :
            (\/ video_requests_db'[i].status # video_requests_db[i].status
             \/ video_requests_db'[i].last_checked # video_requests_db[i].last_checked)
            => (Completed("retrieve") /\ resp'.success)]_vars

\* The fields of a record that are written once.
Fixed(item) ==
    <<item.request_id, item.video_id, item.script_text, item.template_id,
      item.use_captions, item.avatar_id, item.voice_id, item.title, item.created_at>>

C7_EachRetrievalAsksProvider ==
    [][/\ (Called("retrieve") /\ CalledWith.request_id \in Keys(video_requests_db)) =>
            /\ running' # <<>>
            /\ running'[1].lookup = Get(video_requests_db, CalledWith.request_id).video_id
       /\ (Returned("retrieve")
           /\ running[1].request.request_id \in Keys(video_requests_db)) =>
            LET rid == running[1].request.request_id
                old == Get(video_requests_db, rid)
                new == Get(video_requests_db', rid)
            IN  /\ resp'.calls = 1
                /\ resp'.lookup = old.video_id
                /\ resp'.success =>
                    /\ new.status = resp'.reply.status
                    /\ resp'.status = resp'.reply.status
                    /\ new.last_checked # <<>>
                    /\ new.last_checked[1] = now'
                    /\ old.last_checked # <<>> => new.last_checked[1] >= old.last_checked[1]]_vars

\* A successful retrieval by request_id, later than the record's creation,
\* left the record completed and checked at the current time.
C7_Witness ==
    /\ resp.op = "retrieve"
    /\ resp.success
    /\ resp.request_id \in Keys(video_requests_db)
    /\ resp.status = "completed"
    /\ Get(video_requests_db, resp.request_id).last_checked = <<MaxClock>>
    /\ Get(video_requests_db, resp.request_id).created_at = 0
    /\ now = MaxClock

\* What C8 says of a retrieval.
NeitherRejectedBothByRequestId ==
    /\ (Called("retrieve") /\ CalledWith.request_id = NONE /\ CalledWith.video_id = NONE) =>
            /\ running' = <<>>
            /\ resp'.status_code = 400
            /\ ~resp'.success
            /\ resp'.calls = 0
            /\ resp'.reply = NoReply
            /\ video_requests_db' = video_requests_db
    /\ (Called("retrieve") /\ CalledWith.request_id # NONE /\ CalledWith.video_id # NONE
        /\ CalledWith.request_id \in Keys(video_requests_db)) =>
            /\ running' # <<>>
            /\ running'[1].lookup = Get(video_requests_db, CalledWith.request_id).video_id
            /\ running'[1].request_id = CalledWith.request_id

\* C8 as stated: a retrieval that supplies neither id is answered 400 with no
\* provider call and the registry unchanged, and one that supplies both looks
\* up the video of the request_id's record.
C8_NeitherRejected ==
    [][NeitherRejectedBothByRequestId]_vars

\* C8 amended: the same, when the provider key is configured.
C8_NeitherRejectedWhenConfigured ==
    [][(HEYGEN_API_KEY # NONE /\ HEYGEN_API_KEY # "") => NeitherRejectedBothByRequestId]_vars

\* A retrieval supplied a registered request_id and another video's id, and
\* the provider is being asked for the record's video.
C8_Witness ==
    /\ running # <<>>
    /\ running[1].op = "retrieve"
    /\ running[1].request.request_id \in Keys(video_requests_db)
    /\ running[1].request.video_id \in VideoIds
    /\ running[1].request.video_id # running[1].lookup
    /\ running[1].lookup = "v1"

\* What C9 says of a step when no provider key is configured, of every
\* generation call or (validOnly) of those whose body passes validation.
DegradedWithoutKey(validOnly) ==
    (HEYGEN_API_KEY = NONE \/ HEYGEN_API_KEY = "") =>
        /\ running' = <<>>
        /\ video_requests_db' = video_requests_db
        /\ (Called("generate") /\ (validOnly => InRange(CalledWith.script_text))) =>
                /\ resp'.status_code = 500
                /\ resp'.detail = "not_configured"
                /\ resp'.calls = 0
        /\ Called("retrieve") =>
                /\ resp'.status_code = 500
                /\ resp'.detail = "not_configured"
                /\ resp'.calls = 0
        /\ Called("root") => (resp'.status_code = 200 /\ resp'.success)
        /\ Called("health") =>
                (resp'.status_code = 200 /\ resp'.success /\ resp'.body = <<FALSE, FALSE>>)

\* C9 as stated: without a provider key every generation and every retrieval
\* call is answered 500 "not configured" with no provider call and no change
\* of the registry, while GET / and GET /health still answer, the latter
\* with both flags false.
C9_AlwaysNotConfigured == [][DegradedWithoutKey(FALSE)]_vars

\* C9 amended: the same, for the generation calls whose body passes validation.
C9_ValidBodyNotConfigured == [][DegradedWithoutKey(TRUE)]_vars

\* Without a key, a retrieval by video_id was answered "not configured".
C9_Witness ==
    /\ HEYGEN_API_KEY = NONE
    /\ resp.op = "retrieve"
    /\ resp.detail = "not_configured"
    /\ resp.request.video_id = "v1"
    /\ ~heygen_service

\* C10: while a handler waits for the provider, another inbound call (here
\* GET /, which touches nothing the handler uses) can still be handled.
C10_OthersProceed == running # <<>> => ENABLED root

====
